---- MODULE Spec2Model ----
(***************************************************************************)
(* Model of the lock primitives of ostep-rs:                               *)
(*   threads/atomic_exchange.rs  Mutex<T> / MutexGuard (spin lock on an    *)
(*                               AtomicU8 flag, TAS and TTAS, poisoning)   *)
(*   threads/ticket_lock.rs      lock / unlock (ticket lock)               *)
(*   main.rs                     the counter driver                        *)
(*                                                                         *)
(* Memory is modelled with views.  A location that is not atomic (the      *)
(* payload `inner`, the ticket lock's COUTNER) is the sequence of the      *)
(* values written to it, in modification order; every thread has a view,   *)
(* the index of the newest write it is guaranteed to see.  A Release store *)
(* publishes the storing thread's view, an Acquire read of that store      *)
(* raises the reader's view to it, a Relaxed access moves no view.  A read *)
(* by a thread whose view is behind is a data race and yields any write    *)
(* from its view onwards.                                                  *)
(***************************************************************************)
EXTENDS Integers, Naturals, Sequences, FiniteSets, TLC

NumThreads == 2
MaxWrites == 2
Incs == 2

Threads == 1..NumThreads

MUTEX_AVAILABLE == 0
MUTEX_LOCKED == 1
MUTEX_POISONED == 2

InitialValue == 0

VARIABLES
    flag,           \* Mutex.flag : AtomicU8
    flagRel,        \* the view published by the last Release store to flag
    inner,          \* Mutex.inner : the writes to the payload, oldest first
    view,           \* view[t] : index in inner of the newest write t must see
    pc,             \* pc[t] : where thread t is
    test_and_test,  \* the argument of the _lock call t is in
    guards,         \* guards[t] : number of live MutexGuards t owns
    result,         \* result[t] : what t's last call returned
    poisoned        \* some guard was dropped by a panicking thread

\* The programs that count under a lock: main.rs, the two benches of
\* atomic_exchange.rs, and tests::test_ticket_lock of ticket_lock.rs.
VARIABLES
    COUNT,          \* the number of threads spawned
    rounds,         \* the number of increments each thread makes
    ttas,           \* the threads call lock_ttas (else lock)
    wpc,            \* wpc[t] : where the closure of thread t is
    iter,           \* iter[t] : the increments thread t has made
    reg,            \* reg[t] : the value thread t read for `*counter += 1`
    mainpc,         \* where the spawning thread is
    total           \* the value it read from the counter at the end

mutexVars == <<flag, flagRel, inner, view, pc, test_and_test, guards, result,
               poisoned>>

\* The ticket lock and the statics of tests::test_ticket_lock.
VARIABLES
    TICKET,         \* TICKET : AtomicUsize, the next ticket
    TURN,           \* TURN : usize, the ticket being served
    my_turn,        \* my_turn[t] : the ticket thread t drew
    COUTNER,        \* COUTNER : usize, its writes, oldest first
    cview           \* cview[t] : index in COUTNER of the newest write t must see

counterVars == <<COUNT, rounds, ttas, wpc, iter, reg, mainpc, total>>

ticketVars == <<TICKET, TURN, my_turn, COUTNER, cview>>

vars == <<mutexVars, counterVars, ticketVars>>

Max(a, b) == IF a >= b THEN a ELSE b

\* An acquisition that takes nothing from the Release store it reads.
acquire_without_effect(own, published) == own

\* Ordering::Acquire on a read of the flag: the reader's view rises to the
\* view published by the Release store it reads from.
Ordering_Acquire(own, published) == Max(own, published)

\* Ordering::Relaxed on a read of the flag: the reader's view stays.
Ordering_Relaxed(own, published) == own

\* Ordering::Release on a store to the flag: the storing thread's view is
\* published with the store.
Ordering_Release(own) == own

Last(s) == s[Len(s)]

\* Mutex::new
MutexNew ==
    /\ flag = MUTEX_AVAILABLE
    /\ flagRel = 1
    /\ inner = <<InitialValue>>
    /\ view = [t \in Threads |-> 1]
    /\ pc = [t \in Threads |-> "idle"]
    /\ test_and_test = [t \in Threads |-> FALSE]
    /\ guards = [t \in Threads |-> 0]
    /\ result = [t \in Threads |-> "none"]
    /\ poisoned = FALSE

\* A compare-and-exchange that reports every failure as a MUTEX_LOCKED flag.
compare_exchange_reports_locked(cur, expected, new) ==
    {[ok |-> TRUE, val |-> cur, store |-> new] : x \in {cur} \cap {expected}}
    \cup {[ok |-> FALSE, val |-> MUTEX_LOCKED, store |-> cur]}

\* AtomicU8::compare_exchange_weak: the possible results on a flag holding
\* cur.  Ok only when cur is the expected value; Err(cur) also when it is
\* (a spurious failure).
compare_exchange_weak(cur, expected, new) ==
    {[ok |-> TRUE, val |-> cur, store |-> new] : x \in {cur} \cap {expected}}
    \cup {[ok |-> FALSE, val |-> cur, store |-> cur]}

\* swap with the wrong constant stored: the flag is left Available.
swap_available(cur, new) == [val |-> cur, store |-> MUTEX_AVAILABLE]

\* AtomicU8::swap: the value returned and the value stored.
swap(cur, new) == [val |-> cur, store |-> new]

\* MutexGuard::drop: the value stored to the flag.
drop_flag(panicking) ==
    IF panicking THEN MUTEX_POISONED ELSE MUTEX_AVAILABLE

\* A panic in thread t: the thread unwinds, every guard it owns is dropped
\* with thread::panicking() true, and the thread ends (its view ends with
\* it).
unwind(t) ==
    /\ pc' = [pc EXCEPT ![t] = "dead"]
    /\ test_and_test' = [test_and_test EXCEPT ![t] = FALSE]
    /\ guards' = [guards EXCEPT ![t] = 0]
    /\ view' = [view EXCEPT ![t] = 1]
    /\ IF guards[t] > 0
       THEN /\ flag' = drop_flag(TRUE)
            /\ flagRel' = Ordering_Release(view[t])
            /\ poisoned' = TRUE
       ELSE UNCHANGED <<flag, flagRel, poisoned>>

\* Mutex::_lock, entry.
lock_enter(t, tt) ==
    /\ pc[t] = "idle"
    /\ pc' = [pc EXCEPT ![t] = IF tt THEN "test" ELSE "cas"]
    /\ test_and_test' = [test_and_test EXCEPT ![t] = tt]
    /\ result' = [result EXCEPT ![t] = "none"]
    /\ UNCHANGED <<flag, flagRel, inner, view, guards, poisoned>>

\* Mutex::lock
lock(t) == lock_enter(t, FALSE)

\* Mutex::lock_ttas
lock_ttas(t) == lock_enter(t, TRUE)

\* Mutex::_lock, the pre-check `while *self.flag.as_ptr() == 1 {}`.  The read
\* is not atomic and races with the stores to the flag: the loop either
\* re-reads the flag (and leaves once it is not 1) or, the load hoisted out
\* of the loop, never ends once it has read 1.
lock_test(t) ==
    /\ pc[t] = "test"
    /\ \/ /\ flag # MUTEX_LOCKED
          /\ pc' = [pc EXCEPT ![t] = "cas"]
       \/ /\ flag = MUTEX_LOCKED
          /\ pc' = [pc EXCEPT ![t] = "stuck"]
    /\ UNCHANGED <<flag, flagRel, inner, view, test_and_test, guards, result,
                   poisoned>>

\* Mutex::_lock, one turn of the loop: the compare-and-exchange and the
\* match on its result.
lock_cas(t) ==
    /\ pc[t] \in {"cas", "retry"}
    /\ \E r \in compare_exchange_weak(flag, MUTEX_AVAILABLE, MUTEX_LOCKED) :
          IF ~r.ok /\ r.val = MUTEX_LOCKED
          THEN \* Err(MUTEX_LOCKED) => continue
               /\ pc' = [pc EXCEPT ![t] = "retry"]
               /\ UNCHANGED <<flag, flagRel, inner, view, test_and_test,
                              guards, result, poisoned>>
          ELSE IF r.ok /\ r.val = MUTEX_AVAILABLE
          THEN \* Ok(MUTEX_AVAILABLE) => break; Ok(MutexGuard)
               /\ flag' = r.store
               /\ view' = [view EXCEPT
                              ![t] = Ordering_Acquire(view[t], flagRel)]
               /\ guards' = [guards EXCEPT ![t] = guards[t] + 1]
               /\ pc' = [pc EXCEPT ![t] = "idle"]
               /\ test_and_test' = [test_and_test EXCEPT ![t] = FALSE]
               /\ result' = [result EXCEPT ![t] = "guard"]
               /\ UNCHANGED <<flagRel, inner, poisoned>>
          ELSE IF ~r.ok /\ r.val = MUTEX_POISONED
          THEN \* Err(MUTEX_POISONED) => return Err
               /\ pc' = [pc EXCEPT ![t] = "idle"]
               /\ test_and_test' = [test_and_test EXCEPT ![t] = FALSE]
               /\ result' = [result EXCEPT ![t] = "poison"]
               /\ UNCHANGED <<flag, flagRel, inner, view, guards, poisoned>>
          ELSE \* _ => unreachable!()
               /\ unwind(t)
               /\ result' = [result EXCEPT ![t] = "unreachable"]
               /\ UNCHANGED inner

\* try_lock with the arm of MUTEX_LOCKED returning the guard.
try_lock_arms(t) ==
    /\ pc[t] = "idle"
    /\ flag' = MUTEX_LOCKED
    /\ IF flag = MUTEX_POISONED
       THEN /\ result' = [result EXCEPT ![t] = "poison"]
            /\ UNCHANGED guards
       ELSE /\ result' = [result EXCEPT ![t] = "guard"]
            /\ guards' = [guards EXCEPT ![t] = guards[t] + 1]
    /\ UNCHANGED <<flagRel, inner, view, pc, test_and_test, poisoned>>

\* try_lock that waits for the lock as lock does.
try_lock_spin(t) ==
    /\ pc[t] = "idle"
    /\ pc' = [pc EXCEPT ![t] = "cas"]
    /\ result' = [result EXCEPT ![t] = "none"]
    /\ UNCHANGED <<flag, flagRel, inner, view, test_and_test, guards, poisoned>>

\* Mutex::try_lock
try_lock(t) ==
    /\ pc[t] = "idle"
    /\ LET r == swap(flag, MUTEX_LOCKED) IN
       /\ flag' = r.store
       /\ view' = [view EXCEPT ![t] = Ordering_Relaxed(view[t], flagRel)]
       /\ IF r.val = MUTEX_LOCKED
          THEN /\ result' = [result EXCEPT ![t] = "unavailable"]
               /\ UNCHANGED guards
          ELSE IF r.val = MUTEX_AVAILABLE
          THEN /\ result' = [result EXCEPT ![t] = "guard"]
               /\ guards' = [guards EXCEPT ![t] = guards[t] + 1]
          ELSE /\ result' = [result EXCEPT ![t] = "poison"]
               /\ UNCHANGED guards
    /\ UNCHANGED <<flagRel, inner, pc, test_and_test, poisoned>>

\* MutexGuard::deref, and the read of the payload through it: the value read
\* is inner[view'[t]].
deref(t) ==
    /\ pc[t] = "idle"
    /\ guards[t] > 0
    /\ \E i \in view[t]..Len(inner) : view' = [view EXCEPT ![t] = i]
    /\ UNCHANGED <<flag, flagRel, inner, pc, test_and_test, guards, result,
                   poisoned>>

\* MutexGuard::deref_mut, and the write of v to the payload through it.
deref_mut(t, v) ==
    /\ pc[t] = "idle"
    /\ guards[t] > 0
    /\ inner' = Append(inner, v)
    /\ view' = [view EXCEPT ![t] = Len(inner) + 1]
    /\ UNCHANGED <<flag, flagRel, pc, test_and_test, guards, result, poisoned>>

\* MutexGuard::drop in a thread that is not panicking.
drop(t) ==
    /\ pc[t] = "idle"
    /\ guards[t] > 0
    /\ flag' = drop_flag(FALSE)
    /\ flagRel' = Ordering_Release(view[t])
    /\ guards' = [guards EXCEPT ![t] = guards[t] - 1]
    /\ UNCHANGED <<inner, view, pc, test_and_test, result, poisoned>>

\* panic!() in a thread that is not inside a lock call.
panic(t) ==
    /\ pc[t] = "idle"
    /\ unwind(t)
    /\ UNCHANGED <<inner, result>>

(***************************************************************************)
(* Spec: one mutex and threads that call its operations in any order.      *)
(***************************************************************************)

\* The counter programs are not running.
CounterIdle ==
    /\ COUNT = 0
    /\ rounds = 0
    /\ ttas = FALSE
    /\ wpc = [t \in Threads |-> "none"]
    /\ iter = [t \in Threads |-> 0]
    /\ reg = [t \in Threads |-> InitialValue]
    /\ mainpc = "none"
    /\ total = InitialValue

\* The statics of tests::test_ticket_lock.
TicketNew ==
    /\ TICKET = 0
    /\ TURN = 0
    /\ my_turn = [t \in Threads |-> 0]
    /\ COUTNER = <<0>>
    /\ cview = [t \in Threads |-> 1]

Init == MutexNew /\ CounterIdle /\ TicketNew

\* A write through the guard by a caller; each write of these callers writes
\* a value no earlier write wrote, and they make MaxWrites writes at most.
write(t) ==
    /\ Len(inner) <= MaxWrites
    /\ deref_mut(t, InitialValue + Len(inner))

Next ==
    \E t \in Threads :
        \/ lock(t) /\ UNCHANGED <<counterVars, ticketVars>>
        \/ lock_ttas(t) /\ UNCHANGED <<counterVars, ticketVars>>
        \/ lock_test(t) /\ UNCHANGED <<counterVars, ticketVars>>
        \/ lock_cas(t) /\ UNCHANGED <<counterVars, ticketVars>>
        \/ try_lock(t) /\ UNCHANGED <<counterVars, ticketVars>>
        \/ deref(t) /\ UNCHANGED <<counterVars, ticketVars>>
        \/ write(t) /\ UNCHANGED <<counterVars, ticketVars>>
        \/ drop(t) /\ UNCHANGED <<counterVars, ticketVars>>
        \/ panic(t) /\ UNCHANGED <<counterVars, ticketVars>>

Spec == Init /\ [][Next]_vars

(***************************************************************************)
(* SpecCounter: main.rs and the benches test_and_set_performance and       *)
(* test_and_test_and_set_performance: COUNT threads take the lock once,    *)
(* increment the counter `rounds` times and drop the guard; the spawning   *)
(* thread joins them and reads the counter.                                *)
(***************************************************************************)

Workers == 1..COUNT

\* `let counter = Arc::new(Mutex::new(0))` and the spawning of the threads.
InitCounter ==
    /\ MutexNew
    /\ COUNT \in 1..NumThreads
    /\ rounds \in 1..Incs
    /\ ttas \in BOOLEAN
    /\ wpc = [t \in Threads |-> IF t <= COUNT THEN "spawned" ELSE "none"]
    /\ iter = [t \in Threads |-> 0]
    /\ reg = [t \in Threads |-> InitialValue]
    /\ mainpc = "join"
    /\ total = InitialValue
    /\ TicketNew

\* The closure: `counter.lock()` / `counter.lock_ttas()`, the call.
worker_lock(t) ==
    /\ wpc[t] = "spawned"
    /\ IF ttas THEN lock_ttas(t) ELSE lock(t)
    /\ wpc' = [wpc EXCEPT ![t] = "locking"]
    /\ UNCHANGED <<COUNT, rounds, ttas, iter, reg, mainpc, total>>
    /\ UNCHANGED ticketVars

\* The closure waiting inside _lock.
worker_wait(t) ==
    /\ wpc[t] = "locking"
    /\ lock_test(t) \/ lock_cas(t)
    /\ UNCHANGED <<counterVars, ticketVars>>

\* The closure: `.unwrap()` of what the lock call returned.
worker_unwrap(t) ==
    /\ wpc[t] = "locking"
    /\ pc[t] = "idle"
    /\ IF result[t] = "guard"
       THEN /\ wpc' = [wpc EXCEPT ![t] = "loop"]
            /\ UNCHANGED mutexVars
       ELSE /\ panic(t)
            /\ wpc' = [wpc EXCEPT ![t] = "panicked"]
    /\ UNCHANGED <<COUNT, rounds, ttas, iter, reg, mainpc, total>>
    /\ UNCHANGED ticketVars

\* The closure: the read of `*counter += 1`.
worker_read(t) ==
    /\ wpc[t] = "loop"
    /\ iter[t] < rounds
    /\ deref(t)
    /\ reg' = [reg EXCEPT ![t] = inner[view'[t]]]
    /\ wpc' = [wpc EXCEPT ![t] = "add"]
    /\ UNCHANGED <<COUNT, rounds, ttas, iter, mainpc, total>>
    /\ UNCHANGED ticketVars

\* The closure: the write of `*counter += 1`.
worker_write(t) ==
    /\ wpc[t] = "add"
    /\ deref_mut(t, reg[t] + 1)
    /\ iter' = [iter EXCEPT ![t] = iter[t] + 1]
    /\ wpc' = [wpc EXCEPT ![t] = "loop"]
    /\ UNCHANGED <<COUNT, rounds, ttas, reg, mainpc, total>>
    /\ UNCHANGED ticketVars

\* The closure ends: the guard is dropped.
worker_end(t) ==
    /\ wpc[t] = "loop"
    /\ iter[t] = rounds
    /\ drop(t)
    /\ wpc' = [wpc EXCEPT ![t] = "done"]
    /\ UNCHANGED <<COUNT, rounds, ttas, iter, reg, mainpc, total>>
    /\ UNCHANGED ticketVars

\* The spawning thread: `handles[i].take().unwrap().join().unwrap()` for every
\* thread; it panics when one of them panicked.
main_join ==
    /\ mainpc = "join"
    /\ \A t \in Workers : wpc[t] = "done" \/ pc[t] = "dead"
    /\ mainpc' = IF \E t \in Workers : pc[t] = "dead"
                 THEN "panicked" ELSE "joined"
    /\ UNCHANGED <<COUNT, rounds, ttas, wpc, iter, reg, total>>
    /\ UNCHANGED <<mutexVars, ticketVars>>

\* The spawning thread: `*counter.lock().unwrap()`, the guard a temporary
\* dropped at the end of the statement.  The joins made every write of the
\* threads visible to it.
main_read ==
    /\ mainpc = "joined"
    /\ \E r \in compare_exchange_weak(flag, MUTEX_AVAILABLE, MUTEX_LOCKED) :
          IF r.ok /\ r.val = MUTEX_AVAILABLE
          THEN /\ total' = Last(inner)
               /\ mainpc' = "read"
          ELSE /\ mainpc' = "panicked"
               /\ UNCHANGED total
    /\ UNCHANGED <<COUNT, rounds, ttas, wpc, iter, reg>>
    /\ UNCHANGED <<mutexVars, ticketVars>>

NextCounter ==
    \/ \E t \in Threads :
          \/ worker_lock(t)
          \/ worker_wait(t)
          \/ worker_unwrap(t)
          \/ worker_read(t)
          \/ worker_write(t)
          \/ worker_end(t)
    \/ main_join
    \/ main_read

SpecCounter == InitCounter /\ [][NextCounter]_vars

(***************************************************************************)
(* SpecTicket: ticket_lock.rs with tests::test_ticket_lock: COUNT threads  *)
(* call lock(&TURN, &TICKET), add 1 to COUTNER `rounds` times and call     *)
(* unlock(&mut TURN); the test joins them and reads COUTNER.               *)
(* TURN and COUTNER are plain statics: no access to them synchronises, so  *)
(* no thread's view of COUTNER rises but by its own accesses.              *)
(***************************************************************************)

InitTicket ==
    /\ MutexNew
    /\ TicketNew
    /\ COUNT \in 1..NumThreads
    /\ rounds \in 1..Incs
    /\ ttas = FALSE
    /\ wpc = [t \in Threads |-> IF t <= COUNT THEN "spawned" ELSE "none"]
    /\ iter = [t \in Threads |-> 0]
    /\ reg = [t \in Threads |-> 0]
    /\ mainpc = "join"
    /\ total = 0

\* A ticket drawn with a load in place of the fetch_add: TICKET stays.
ticket_lock_load(t) ==
    /\ wpc[t] = "spawned"
    /\ my_turn' = [my_turn EXCEPT ![t] = TICKET]
    /\ wpc' = [wpc EXCEPT ![t] = "spin"]
    /\ UNCHANGED <<TICKET, TURN, COUTNER, cview>>
    /\ UNCHANGED <<COUNT, rounds, ttas, iter, reg, mainpc, total>>
    /\ UNCHANGED mutexVars

\* ticket_lock::lock, `let my_turn = ticket.fetch_add(1, Ordering::Relaxed)`.
ticket_lock(t) ==
    /\ wpc[t] = "spawned"
    /\ my_turn' = [my_turn EXCEPT ![t] = TICKET]
    /\ TICKET' = TICKET + 1
    /\ wpc' = [wpc EXCEPT ![t] = "spin"]
    /\ UNCHANGED <<TURN, COUTNER, cview>>
    /\ UNCHANGED <<COUNT, rounds, ttas, iter, reg, mainpc, total>>
    /\ UNCHANGED mutexVars

\* The wait of lock with the comparison turned: a thread returns while the
\* ticket served is not beyond its own.
ticket_spin_le(t) ==
    /\ wpc[t] = "spin"
    /\ TURN <= my_turn[t]
    /\ wpc' = [wpc EXCEPT ![t] = "loop"]
    /\ UNCHANGED ticketVars
    /\ UNCHANGED <<COUNT, rounds, ttas, iter, reg, mainpc, total>>
    /\ UNCHANGED mutexVars

\* ticket_lock::lock, `while *turn != my_turn { spin_loop() }`.  The read of
\* *turn is a plain read that races with unlock's write: the loop either
\* re-reads it (and ends once it reads my_turn; a stale value, older than
\* my_turn, only keeps it spinning) or, the load hoisted out of the loop,
\* never ends once it has read another value.
ticket_spin(t) ==
    /\ wpc[t] = "spin"
    /\ \/ /\ TURN = my_turn[t]
          /\ wpc' = [wpc EXCEPT ![t] = "loop"]
       \/ /\ TURN # my_turn[t]
          /\ wpc' = [wpc EXCEPT ![t] = "stuck"]
    /\ UNCHANGED ticketVars
    /\ UNCHANGED <<COUNT, rounds, ttas, iter, reg, mainpc, total>>
    /\ UNCHANGED mutexVars

\* The closure: the read of `COUTNER += 1`.
ticket_read(t) ==
    /\ wpc[t] = "loop"
    /\ iter[t] < rounds
    /\ \E i \in cview[t]..Len(COUTNER) :
          /\ reg' = [reg EXCEPT ![t] = COUTNER[i]]
          /\ cview' = [cview EXCEPT ![t] = i]
    /\ wpc' = [wpc EXCEPT ![t] = "add"]
    /\ UNCHANGED <<TICKET, TURN, my_turn, COUTNER>>
    /\ UNCHANGED <<COUNT, rounds, ttas, iter, mainpc, total>>
    /\ UNCHANGED mutexVars

\* The closure: the write of `COUTNER += 1`.
ticket_write(t) ==
    /\ wpc[t] = "add"
    /\ COUTNER' = Append(COUTNER, reg[t] + 1)
    /\ cview' = [cview EXCEPT ![t] = Len(COUTNER) + 1]
    /\ iter' = [iter EXCEPT ![t] = iter[t] + 1]
    /\ wpc' = [wpc EXCEPT ![t] = "loop"]
    /\ UNCHANGED <<TICKET, TURN, my_turn>>
    /\ UNCHANGED <<COUNT, rounds, ttas, reg, mainpc, total>>
    /\ UNCHANGED mutexVars

\* unlock that advances the ticket served by two.
ticket_unlock_two(t) ==
    /\ wpc[t] = "loop"
    /\ iter[t] = rounds
    /\ TURN' = TURN + 2
    /\ wpc' = [wpc EXCEPT ![t] = "done"]
    /\ UNCHANGED <<TICKET, my_turn, COUTNER, cview>>
    /\ UNCHANGED <<COUNT, rounds, ttas, iter, reg, mainpc, total>>
    /\ UNCHANGED mutexVars

\* ticket_lock::unlock, `*turn += 1`, called when the loop has ended.
ticket_unlock(t) ==
    /\ wpc[t] = "loop"
    /\ iter[t] = rounds
    /\ TURN' = TURN + 1
    /\ wpc' = [wpc EXCEPT ![t] = "done"]
    /\ UNCHANGED <<TICKET, my_turn, COUTNER, cview>>
    /\ UNCHANGED <<COUNT, rounds, ttas, iter, reg, mainpc, total>>
    /\ UNCHANGED mutexVars

\* The test: the joins, which make every write of the threads visible, and
\* the read of COUTNER for assert_eq!.
ticket_join ==
    /\ mainpc = "join"
    /\ \A t \in Workers : wpc[t] = "done"
    /\ mainpc' = "read"
    /\ total' = Last(COUTNER)
    /\ UNCHANGED ticketVars
    /\ UNCHANGED <<COUNT, rounds, ttas, wpc, iter, reg>>
    /\ UNCHANGED mutexVars

NextTicket ==
    \/ \E t \in Threads :
          \/ ticket_lock(t)
          \/ ticket_spin(t)
          \/ ticket_read(t)
          \/ ticket_write(t)
          \/ ticket_unlock(t)
    \/ ticket_join

SpecTicket == InitTicket /\ [][NextTicket]_vars

\* A holder whose exit from the critical section also advances the ticket
\* served, as the drop of a guard would.
ticket_abandon_unlocks(t) ==
    /\ wpc[t] \in {"loop", "add"}
    /\ TURN' = TURN + 1
    /\ wpc' = [wpc EXCEPT ![t] = "abandoned"]
    /\ UNCHANGED <<TICKET, my_turn, COUTNER, cview>>
    /\ UNCHANGED <<COUNT, rounds, ttas, iter, reg, mainpc, total>>
    /\ UNCHANGED mutexVars

\* A thread that stops between its return from lock and its call of unlock
\* (a panic in the closure).  lock returns no guard, so nothing runs unlock
\* for it: *turn is left as it is.
ticket_abandon(t) ==
    /\ wpc[t] \in {"loop", "add"}
    /\ wpc' = [wpc EXCEPT ![t] = "abandoned"]
    /\ UNCHANGED ticketVars
    /\ UNCHANGED <<COUNT, rounds, ttas, iter, reg, mainpc, total>>
    /\ UNCHANGED mutexVars

\* The ticket lock with holders that may stop without unlocking.
NextAbandon ==
    \/ \E t \in Threads :
          \/ ticket_lock(t)
          \/ ticket_spin(t)
          \/ ticket_read(t)
          \/ ticket_write(t)
          \/ ticket_unlock(t)
          \/ ticket_abandon(t)
    \/ ticket_join

SpecAbandon == InitTicket /\ [][NextAbandon]_vars

TypeOK ==
    /\ flag \in {MUTEX_AVAILABLE, MUTEX_LOCKED, MUTEX_POISONED}
    /\ flagRel \in 1..Len(inner)
    /\ \A t \in Threads : view[t] \in 1..Len(inner)

(***************************************************************************)
(* The claims about the mutex.                                             *)
(***************************************************************************)

NoGuardLive == \A t \in Threads : guards[t] = 0

\* C1: at most one MutexGuard of the mutex is live, in every reachable state
\* and under every interleaving of lock, lock_ttas, try_lock, drops and panics.
C1_MutualExclusion ==
    /\ \A t \in Threads : guards[t] <= 1
    /\ \A t, u \in Threads : (guards[t] > 0 /\ guards[u] > 0) => t = u

\* One thread holds the guard after another has held and dropped it.
C1_Witness ==
    \E t, u \in Threads :
        /\ t # u
        /\ guards[t] = 1 /\ result[t] = "guard"
        /\ guards[u] = 0 /\ result[u] = "guard"

\* C2: once a guard has been dropped by a panicking thread, every call of
\* lock, lock_ttas or try_lock that returns, returns the poison error.
C2_PoisonPropagation ==
    [][poisoned =>
         \A t \in Threads :
             (try_lock(t) \/ lock_cas(t)) => result'[t] = "poison"]_vars

\* C3: the flag only ever goes Available -> Locked, Locked -> Available and
\* Locked -> Poisoned; in particular it never leaves Poisoned.
C3_FlagTransitions ==
    [][flag' # flag =>
         <<flag, flag'>> \in {<<MUTEX_AVAILABLE, MUTEX_LOCKED>>,
                              <<MUTEX_LOCKED, MUTEX_AVAILABLE>>,
                              <<MUTEX_LOCKED, MUTEX_POISONED>>}]_vars

\* C4: a spurious failure of the compare-and-exchange makes lock and
\* lock_ttas retry: no call ever ends in the unreachable!() branch.
C4_SpuriousFailureRetried ==
    \A t \in Threads : result[t] # "unreachable"

\* C5: try_lock on a Locked flag returns the 'unavailable' error in its one
\* step, without spinning, leaves the flag Locked and leaves every guard as
\* it was.
C5_TryLockNeverBlocks ==
    [][\A t \in Threads :
         (flag = MUTEX_LOCKED /\ try_lock(t)) =>
             /\ result'[t] = "unavailable"
             /\ pc'[t] = "idle"
             /\ flag' = MUTEX_LOCKED
             /\ guards' = guards]_vars

\* A try_lock has failed with 'unavailable' against another thread's guard.
C5_Witness ==
    \E t, u \in Threads :
        /\ t # u
        /\ guards[u] = 1 /\ guards[t] = 0
        /\ result[t] = "unavailable" /\ pc[t] = "idle"
        /\ flag = MUTEX_LOCKED

\* C6: the 'unavailable' error comes from try_lock alone, and only while
\* some guard of the mutex is live: with no guard live, try_lock returns a
\* guard or the poison error.
C6_UnavailableOnlyWhenHeld ==
    [][\A t \in Threads :
         /\ (result'[t] = "unavailable" /\ result[t] # "unavailable")
                => try_lock(t)
         /\ (try_lock(t) /\ NoGuardLive)
                => result'[t] \in {"guard", "poison"}]_vars

\* C7: a guard dropped by a thread that is not panicking leaves the flag
\* Available, a try_lock on the Available flag returns a guard, and the
\* holder of a guard reads the last value written to the payload.
C7_ReleaseThenTryLock ==
    [][\A t \in Threads :
         /\ drop(t) => flag' = MUTEX_AVAILABLE
         /\ (flag = MUTEX_AVAILABLE /\ try_lock(t)) => result'[t] = "guard"
         /\ guards'[t] > 0 => view'[t] = Len(inner')]_vars

\* C8: while a guard is live the flag is Locked.
C8_GuardImpliesLocked ==
    \A t \in Threads : guards[t] > 0 => flag = MUTEX_LOCKED

\* A lock call has failed its compare-and-exchange against a live guard.
C8_Witness ==
    \E t, u \in Threads :
        /\ t # u
        /\ guards[t] = 1
        /\ pc[u] = "retry"

(***************************************************************************)
(* The claim about the counter programs.                                   *)
(***************************************************************************)

\* C9: when the COUNT threads have each taken the lock (by lock, or all by
\* lock_ttas), made their `rounds` increments and dropped the guard, the
\* counter holds COUNT * rounds, and that is the value the spawning thread
\* reads after the joins.
C9_NoLostUpdate ==
    /\ (\A t \in Workers : wpc[t] = "done")
           => Last(inner) = InitialValue + COUNT * rounds
    /\ mainpc = "read" => total = InitialValue + COUNT * rounds

\* The largest program has run to its end.
C9_Witness ==
    /\ COUNT = NumThreads
    /\ rounds = Incs
    /\ mainpc = "read"
    /\ total = InitialValue + NumThreads * Incs

(***************************************************************************)
(* The claims about the ticket lock.                                       *)
(***************************************************************************)

\* Thread t is between the return of lock and its unlock.
InCriticalSection(t) == wpc[t] \in {"loop", "add"}

\* At most one thread is between the return of lock and its unlock.
TicketExclusion ==
    \A t, u \in Threads :
        (InCriticalSection(t) /\ InCriticalSection(u)) => t = u

\* C10: with the threads each calling lock, adding 1 to the counter `rounds`
\* times and calling unlock, at most one thread is in its critical section
\* at a time and the counter ends at COUNT * rounds.
C10_TicketMutualExclusion ==
    /\ TicketExclusion
    /\ (\A t \in Workers : wpc[t] = "done") => Last(COUTNER) = COUNT * rounds
    /\ mainpc = "read" => total = COUNT * rounds

\* Thread t has drawn its ticket.
Drawn(t) == wpc[t] \notin {"none", "spawned"}

\* Thread t has returned from lock.
Admitted(t) == wpc[t] \in {"loop", "add", "done", "abandoned"}

\* C11: of two threads that drew tickets a < b, the one with a has returned
\* from lock, ended its critical section and called unlock before the one
\* with b returns from lock.
C11_TicketFIFO ==
    \A a, b \in Threads :
        (Drawn(a) /\ Drawn(b) /\ my_turn[a] < my_turn[b] /\ Admitted(b))
            => wpc[a] = "done"

\* The thread with the later ticket is in its critical section, the thread
\* with the earlier ticket having called unlock.
C11_Witness ==
    \E a, b \in Threads :
        /\ Drawn(a) /\ Drawn(b)
        /\ my_turn[a] < my_turn[b]
        /\ wpc[a] = "done"
        /\ InCriticalSection(b)

\* C12: a thread that drew ticket n returns from lock only when TURN = n;
\* TURN stays n while the thread is in its critical section and changes only
\* by that thread's unlock, which adds exactly 1.
C12_AdmissionInvariant ==
    [][/\ \A t \in Threads :
              (wpc[t] = "spin" /\ wpc'[t] = "loop") => TURN = my_turn[t]
       /\ \A t \in Threads :
              (InCriticalSection(t))' => TURN' = my_turn'[t]
       /\ TURN' # TURN =>
              \E t \in Threads :
                  /\ InCriticalSection(t)
                  /\ my_turn[t] = TURN
                  /\ ticket_unlock(t)
                  /\ TURN' = TURN + 1]_vars

\* A thread that drew a ticket other than the first is adding to the counter
\* while its ticket is the one served.
C12_Witness ==
    \E t \in Threads :
        /\ wpc[t] = "add"
        /\ my_turn[t] > 0
        /\ TURN = my_turn[t]

\* C13: once the thread being served has stopped without calling unlock,
\* TURN never changes again, no thread that has drawn or later draws a ticket
\* is admitted, and each of them only spins: none gets an error.
C13_Abandonment ==
    [][(\E a \in Threads : wpc[a] = "abandoned") =>
          /\ TURN' = TURN
          /\ \A t \in Threads :
                /\ ~Admitted(t) => ~(Admitted(t))'
                /\ (Drawn(t) /\ ~Admitted(t))' => wpc'[t] \in {"spin", "stuck"}
          /\ mainpc' = "join"]_vars

\* A holder has stopped without unlocking and a thread with a later ticket
\* is spinning in lock.
C13_Witness ==
    \E a, b \in Threads :
        /\ wpc[a] = "abandoned"
        /\ wpc[b] \in {"spin", "stuck"}
        /\ my_turn[a] < my_turn[b]
        /\ TURN = my_turn[a]

\* C14: lock_ttas behaves as lock.  A call of lock that finds the flag not
\* Locked can always make its attempt (and return the guard or the poison
\* error); so can a call of lock_ttas, whose pre-check never keeps it from
\* an attempt that lock could make.
C14_TtasEquivalentToLock ==
    \A t \in Threads :
        (pc[t] \notin {"idle", "dead"} /\ flag # MUTEX_LOCKED)
            => ENABLED (lock_test(t) \/ lock_cas(t))

\* C15: every acquisition is an acquire of what the last release published:
\* a thread that obtains a guard (by lock, lock_ttas or try_lock) sees at
\* least the writes published by the last drop, and a thread that returns
\* from the ticket lock's wait sees every write made to the counter.
C15_MemoryOrdering ==
    [][\A t \in Threads :
         /\ guards'[t] > guards[t] => view'[t] >= flagRel
         /\ (wpc[t] = "spin" /\ wpc'[t] = "loop")
                => cview'[t] = Len(COUTNER)]_vars

\* C16: lock and lock_ttas fail fast on poison: the pre-check lets a
\* Poisoned flag through to the compare-and-exchange, and an attempt on a
\* Poisoned flag ends the call with the poison error, without a retry, and
\* leaves the flag Poisoned and the mutex as it was.
C16_FailFastOnPoison ==
    [][\A t \in Threads :
         /\ (flag = MUTEX_POISONED /\ lock_cas(t)) =>
                /\ result'[t] = "poison"
                /\ pc'[t] = "idle"
                /\ flag' = MUTEX_POISONED
                /\ UNCHANGED <<flagRel, inner, view, guards, poisoned>>
         /\ (flag = MUTEX_POISONED /\ lock_test(t)) =>
                /\ pc'[t] = "cas"
                /\ UNCHANGED <<flag, flagRel, inner, view, guards, poisoned>>
       ]_vars

\* A call of lock or lock_ttas has returned the poison error and the flag is
\* still Poisoned.
C16_Witness ==
    \E t \in Threads :
        /\ flag = MUTEX_POISONED
        /\ result[t] = "poison"
        /\ pc[t] = "idle"

\* C17: in lock_ttas every compare-and-exchange comes after a pre-check
\* that has read the flag as not Locked: a call of lock_ttas is never about
\* to retry its compare-and-exchange straight after a failed one.
C17_PreCheckBeforeEveryAttempt ==
    \A t \in Threads : test_and_test[t] => pc[t] # "retry"

\* C18: a Locked flag has a holder: whenever the flag is Locked some thread
\* holds a live guard of the mutex.
C18_NoOrphanedLocked ==
    flag = MUTEX_LOCKED => \E t \in Threads : guards[t] > 0

\* C19: no thread starves in the ticket lock: a thread that has drawn its
\* ticket and is still in lock when its ticket comes to be served can
\* return from lock (so that, scheduled fairly, it does).
C19_StarvationFreedom ==
    \A t \in Threads :
        (Drawn(t) /\ ~Admitted(t) /\ TURN = my_turn[t])
            => ENABLED ticket_spin(t)

\* C20: the tickets count the threads: TURN <= TICKET, the tickets drawn are
\* exactly 0 .. TICKET - 1, each drawn by one thread, and TICKET - TURN is
\* the number of threads that have drawn a ticket and not yet called unlock.
C20_TicketCounting ==
    /\ TURN <= TICKET
    /\ \A a, b \in Threads :
           (Drawn(a) /\ Drawn(b) /\ a # b) => my_turn[a] # my_turn[b]
    /\ {my_turn[t] : t \in {u \in Threads : Drawn(u)}} = 0..(TICKET - 1)
    /\ TICKET - TURN =
           Cardinality({t \in Threads : Drawn(t) /\ wpc[t] # "done"})

\* One thread has unlocked and another, its ticket drawn, has not.
C20_Witness ==
    /\ TURN = 1
    /\ TICKET = 2
    /\ \E a, b \in Threads :
           /\ wpc[a] = "done"
           /\ Drawn(b)
           /\ wpc[b] # "done"

====
